---- MODULE Spec2Model ----
(***************************************************************************)
(* Model of piptools/scripts/compile.py: the `cli` command of pip-compile. *)
(*                                                                         *)
(* Text that the program sorts, lower-cases or joins is a sequence of      *)
(* code points (65..90 are 'A'..'Z', 97..122 are 'a'..'z').  Index URLs    *)
(* are only compared for equality and are TLA+ strings.  log.debug output, *)
(* the verbose colour and the find-links list (which only reaches          *)
(* log.debug) are not part of the output document and are not modelled.    *)
(* src_file always has a value (its default is DEFAULT_REQUIREMENTS_FILE), *)
(* so the "No input files" exit cannot be taken.                           *)
(***************************************************************************)
EXTENDS Integers, Sequences, FiniteSets, TLC

VARIABLES
    pc,                \* position of cli in its body
    index_url,         \* option -i/--index-url (NoURL when not given)
    extra_index_url,   \* option --extra-index-url (multiple)
    no_header,         \* option --no-header
    annotate,          \* option -a/--annotate
    dry_run,           \* option --dry-run
    src,               \* contents of src_file as parse_requirements sees it
    engine,            \* what Resolver(...).resolve() will do with the input
    index_urls,        \* repository.finder.index_urls
    constraints,       \* the collected constraints, in document order
    results,           \* resolver.resolve(): the result set, in iteration order
                       \* (empty until it is assigned)
    formatted_results, \* sorted(results, key=...) (empty until assigned)
    rev_deps,          \* resolver.reverse_dependencies(results), None until
                       \* it is assigned
    out,               \* the lines written with log.info, in order
    errors,            \* the messages written with log.error
    warnings,          \* the messages written with log.warning
    exit_status        \* argument of sys.exit, None while none was called

vars == <<pc, index_url, extra_index_url, no_header, annotate, dry_run, src,
          engine, index_urls, constraints, results, formatted_results,
          rev_deps, out, errors, warnings, exit_status>>

options == <<index_url, extra_index_url, no_header, annotate, dry_run>>
world == <<src, engine>>

\* Python's None and a value that is not None.  index_url is a string or
\* NoURL; every other optional value is None or Some(v).
NoURL == "None"
None == [some |-> FALSE]
Some(v) == [some |-> TRUE, val |-> v]

(***************************************************************************)
(* Bounds of the model.                                                    *)
(***************************************************************************)
MaxExtra == 3      \* --extra-index-url options on one command line
MaxResults == 3    \* packages in a resolved set
MaxConstraints == 2  \* top-level constraints in the source file
MaxEdges == 2      \* dependency declarations in the dependency cache

(***************************************************************************)
(* Text helpers: Python's str.lower, string comparison and str.join.       *)
(***************************************************************************)
Min(a, b) == IF a < b THEN a ELSE b

LowerChar(c) == IF c \in 65..90 THEN c + 32 ELSE c

Lower(s) == [i \in 1..Len(s) |-> LowerChar(s[i])]

\* s < t for Python strings: lexicographic on code points.
StrLess(s, t) ==
    \E k \in 0..Min(Len(s), Len(t)) :
        /\ \A i \in 1..k : s[i] = t[i]
        /\ \/ k = Len(s) /\ k < Len(t)
           \/ k < Len(s) /\ k < Len(t) /\ s[k + 1] < t[k + 1]

CommaSpace == <<44, 32>>       \* ", "
Via == <<118, 105, 97, 32>>    \* "via "
Hash == <<35, 32>>             \* "# "

RECURSIVE Join(_)
Join(names) ==
    IF names = <<>> THEN <<>>
    ELSE IF Len(names) = 1 THEN names[1]
    ELSE names[1] \o CommaSpace \o Join(Tail(names))

(***************************************************************************)
(* Index configuration.                                                    *)
(***************************************************************************)
DEFAULT_INDEX_URL == "https://pypi.python.org/simple/"
DEFAULT_REQUIREMENTS_FILE == "requirements.in"

URLS == {DEFAULT_INDEX_URL, "https://x", "https://y"}

\* PyPIRepository(): the finder starts with the default index only.
PyPIRepository == <<DEFAULT_INDEX_URL>>

\* zip(chain(['--index-url'], cycle(['--extra-index-url'])), index_urls):
\* the label paired with the i-th entry of index_urls.
Directive(i) == IF i = 1 THEN "--index-url" ELSE "--extra-index-url"

\* The loop over the zipped pairs: one line per entry that is not the
\* default index; the line is formatted with index_urls[0].
RECURSIVE IndexLoop(_, _)
IndexLoop(urls, i) ==
    IF i > Len(urls) THEN <<>>
    ELSE IF urls[i] = DEFAULT_INDEX_URL THEN IndexLoop(urls, i + 1)
    ELSE <<[kind |-> "index", directive |-> Directive(i), url |-> urls[1]]>>
             \o IndexLoop(urls, i + 1)

(***************************************************************************)
(* Resolved requirements and their ordering.                               *)
(***************************************************************************)
Names == {<<97>>, <<66>>, <<98>>}     \* "a", "B", "b"
Pin == <<61, 61, 49>>                  \* "==1"

\* An InstallRequirement of the result set: str(r.req) is name plus pin.
Requirement(n, e) == [name |-> n, req |-> n \o Pin, editable |-> e]

\* key=lambda r: (not r.editable, str(r.req).lower())
SortKey_NoLower(r) == <<~r.editable, r.req>>

SortKey(r) == <<~r.editable, Lower(r.req)>>

\* Python's tuple comparison of two keys; False < True.
KeyLess(a, b) ==
    \/ ~a[1] /\ b[1]
    \/ a[1] = b[1] /\ StrLess(a[2], b[2])

\* sorted() is stable: an element goes after every element that is not
\* greater than it.
RECURSIVE Insert_Unstable(_, _)
Insert_Unstable(x, s) ==
    IF s = <<>> THEN <<x>>
    ELSE IF ~KeyLess(SortKey(s[1]), SortKey(x)) THEN <<x>> \o s
    ELSE <<s[1]>> \o Insert_Unstable(x, Tail(s))

RECURSIVE Insert(_, _)
Insert(x, s) ==
    IF s = <<>> THEN <<x>>
    ELSE IF KeyLess(SortKey(x), SortKey(s[1])) THEN <<x>> \o s
    ELSE <<s[1]>> \o Insert(x, Tail(s))

RECURSIVE Sorted(_)
Sorted(s) ==
    IF s = <<>> THEN <<>>
    ELSE Insert(s[Len(s)], Sorted(SubSeq(s, 1, Len(s) - 1)))

(***************************************************************************)
(* Annotations.                                                            *)
(***************************************************************************)
\* resolver.reverse_dependencies(results): for every resolved package with
\* a cache entry, each dependency it declares that names a resolved package
\* gets the declaring package as a parent.  Packages without parents have
\* no key.
ReverseDependencies(cache, rs) ==
    LET resolved == {rs[i].name : i \in 1..Len(rs)}
        parents(n) == {p \in resolved : n \in cache[p]}
        keys == {n \in resolved : parents(n) # {}}
    IN  [n \in keys |-> parents(n)]

\* rev_deps.get(result.name, [])
Lookup_Any(rd, result) == UNION {rd[n] : n \in DOMAIN rd}

Lookup(rd, result) ==
    IF result.name \in DOMAIN rd THEN rd[result.name] ELSE {}

\* sorted(<set of names>): ascending in Python's string order.
RECURSIVE SortedStrs_Desc(_)
SortedStrs_Desc(S) ==
    IF S = {} THEN <<>>
    ELSE LET m == CHOOSE x \in S : \A y \in S \ {x} : StrLess(y, x)
         IN  <<m>> \o SortedStrs_Desc(S \ {m})

RECURSIVE SortedStrs(_)
SortedStrs(S) ==
    IF S = {} THEN <<>>
    ELSE LET m == CHOOSE x \in S : \A y \in S \ {x} : StrLess(x, y)
         IN  <<m>> \o SortedStrs(S \ {m})

\* The body of the loop over formatted_results, up to format_requirement.
AnnotationFor_NoGuard(result) ==
    IF annotate
    THEN Some(Via \o Join(SortedStrs(Lookup(rev_deps.val, result))))
    ELSE None

AnnotationFor(result) ==
    IF annotate
    THEN LET annotation == Join(SortedStrs(Lookup(rev_deps.val, result)))
         IN  Some(IF annotation # <<>> THEN Via \o annotation ELSE annotation)
    ELSE None

\* format_requirement(result, annotation=annotation): the requirement text,
\* followed by "# " and the annotation when the annotation is truthy.
FormatRequirement(result, annotation) ==
    [kind |-> "req",
     name |-> result.name,
     text |-> result.req,
     suffix |-> IF annotation.some /\ annotation.val # <<>>
                THEN Hash \o annotation.val ELSE <<>>]

\* The header block written unless --no-header is given.
HeaderLines ==
    << <<"#">>,
       <<"#", " This file is autogenerated by pip-compile">>,
       <<"#", " Make changes in ", DEFAULT_REQUIREMENTS_FILE,
         ", then run this to update:">>,
       <<"#">>,
       <<"#", "    pip-compile ", DEFAULT_REQUIREMENTS_FILE>>,
       <<"#">> >>

HeaderBlock ==
    [i \in 1..Len(HeaderLines) |-> [kind |-> "header", text |-> HeaderLines[i]]]

(***************************************************************************)
(* The inputs of one run: the command line, the source file and what the   *)
(* resolution engine makes of it.                                          *)
(***************************************************************************)
BoundedSeq(S, n) == UNION {[1..k -> S] : k \in 0..n}

Injective(s) == \A i, j \in 1..Len(s) : i # j => s[i] # s[j]

NamesOf(rs) == {rs[i].name : i \in 1..Len(rs)}

Requirements == {Requirement(n, e) : n \in Names, e \in BOOLEAN}

\* A result set holds one requirement per name; the sequence is the order
\* in which the set iterates.
ResultSets ==
    {rs \in BoundedSeq(Requirements, MaxResults) :
        \A i, j \in 1..Len(rs) : i # j => rs[i].name # rs[j].name}

RECURSIVE Edges(_, _)
Edges(cache, S) ==
    IF S = {} THEN 0
    ELSE LET n == CHOOSE x \in S : TRUE
         IN  Cardinality(cache[n]) + Edges(cache, S \ {n})

\* The dependency cache: the names each package declares as dependencies
\* (none for a package without an entry).  No package depends on itself.
Caches ==
    {c \in [Names -> SUBSET Names] :
        /\ \A n \in Names : n \notin c[n]
        /\ Edges(c, Names) <= MaxEdges}

EmptyCache == [n \in Names |-> {}]

\* The top-level constraints of a source file that resolves to rs.
SourcesFor(rs) ==
    {l \in BoundedSeq(NamesOf(rs), MaxConstraints) :
        Injective(l) /\ (rs # <<>> => l # <<>>)}

ParseError ==
    [src |-> [ok |-> FALSE, lines |-> <<>>],
     engine |-> [ok |-> FALSE, result_set |-> <<>>, cache |-> EmptyCache]]

ResolutionError(n) ==
    [src |-> [ok |-> TRUE, lines |-> <<n>>],
     engine |-> [ok |-> FALSE, result_set |-> <<>>, cache |-> EmptyCache]]

Resolved(l, rs, c) ==
    [src |-> [ok |-> TRUE, lines |-> l],
     engine |-> [ok |-> TRUE, result_set |-> rs, cache |-> c]]

IndexOptions ==
    {[index_url |-> i, extra_index_url |-> x] :
        i \in URLS \cup {NoURL}, x \in BoundedSeq(URLS, MaxExtra)}

\* The state of a run before cli has done anything.
Start ==
    /\ no_header \in BOOLEAN
    /\ annotate \in BOOLEAN
    /\ pc = "setup"
    /\ index_urls = <<>>
    /\ constraints = <<>>
    /\ results = <<>>
    /\ formatted_results = <<>>
    /\ rev_deps = None
    /\ out = <<>>
    /\ errors = <<>>
    /\ warnings = <<>>
    /\ exit_status = None

WorldIs(w) == src = w.src /\ engine = w.engine

\* Runs over every source file, result set and dependency cache, with one
\* extra index configured.
Init ==
    /\ index_url = "https://x"
    /\ extra_index_url = <<"https://y">>
    /\ dry_run = FALSE
    /\ \/ WorldIs(ParseError)
       \/ \E n \in Names : WorldIs(ResolutionError(n))
       \/ \E rs \in ResultSets, c \in Caches :
             \E l \in SourcesFor(rs) : WorldIs(Resolved(l, rs, c))
    /\ Start

\* Runs over every index configuration, with at most one resolved package.
InitIndex ==
    /\ \E o \in IndexOptions :
        /\ index_url = o.index_url
        /\ extra_index_url = o.extra_index_url
    /\ dry_run \in BOOLEAN
    /\ \/ WorldIs(ParseError)
       \/ \E n \in Names : WorldIs(ResolutionError(n))
       \/ \E n \in Names :
             WorldIs(Resolved(<<n>>, <<Requirement(n, FALSE)>>, EmptyCache))
    /\ Start

(***************************************************************************)
(* The steps of cli.                                                       *)
(***************************************************************************)
\* Setup: configure the finder from the options.
Setup ==
    /\ pc = "setup"
    /\ index_urls' = (IF index_url # NoURL THEN <<index_url>> ELSE PyPIRepository)
                         \o extra_index_url
    /\ pc' = "parse"
    /\ UNCHANGED <<options, world, constraints, results, formatted_results,
                   rev_deps, out, errors, warnings, exit_status>>

\* Collecting the constraints of src_file.
Parse ==
    /\ pc = "parse"
    /\ src.ok
    /\ constraints' = src.lines
    /\ pc' = "resolve"
    /\ UNCHANGED <<options, world, index_urls, results, formatted_results,
                   rev_deps, out, errors, warnings, exit_status>>

\* parse_requirements raises: the exception leaves cli.
ParseFail ==
    /\ pc = "parse"
    /\ ~src.ok
    /\ pc' = "raised"
    /\ UNCHANGED <<options, world, index_urls, constraints, results,
                   formatted_results, rev_deps, out, errors, warnings,
                   exit_status>>

Resolve ==
    /\ pc = "resolve"
    /\ engine.ok
    /\ results' = engine.result_set
    /\ pc' = "format"
    /\ UNCHANGED <<options, world, index_urls, constraints, formatted_results,
                   rev_deps, out, errors, warnings, exit_status>>

\* except PipToolsError: log.error(str(e)); sys.exit(2)
ResolveFail_NoExit ==
    /\ pc = "resolve"
    /\ ~engine.ok
    /\ errors' = Append(errors, "PipToolsError")
    /\ results' = <<>>
    /\ pc' = "format"
    /\ UNCHANGED <<options, world, index_urls, constraints, formatted_results,
                   rev_deps, out, warnings, exit_status>>

ResolveFail ==
    /\ pc = "resolve"
    /\ ~engine.ok
    /\ errors' = Append(errors, "PipToolsError")
    /\ exit_status' = Some(2)
    /\ pc' = "exit"
    /\ UNCHANGED <<options, world, index_urls, constraints, results,
                   formatted_results, rev_deps, out, warnings>>

FormatResults ==
    /\ pc = "format"
    /\ formatted_results' = Sorted(results)
    /\ pc' = "header"
    /\ UNCHANGED <<options, world, index_urls, constraints, results, rev_deps,
                   out, errors, warnings, exit_status>>

Header_Always ==
    /\ pc = "header"
    /\ out' = out \o HeaderBlock
    /\ pc' = "index"
    /\ UNCHANGED <<options, world, index_urls, constraints, results,
                   formatted_results, rev_deps, errors, warnings, exit_status>>

Header ==
    /\ pc = "header"
    /\ out' = IF ~no_header THEN out \o HeaderBlock ELSE out
    /\ pc' = "index"
    /\ UNCHANGED <<options, world, index_urls, constraints, results,
                   formatted_results, rev_deps, errors, warnings, exit_status>>

IndexDirectives ==
    /\ pc = "index"
    /\ out' = out \o IndexLoop(index_urls, 1)
    /\ pc' = "annotate"
    /\ UNCHANGED <<options, world, index_urls, constraints, results,
                   formatted_results, rev_deps, errors, warnings, exit_status>>

\* if annotate: rev_deps = resolver.reverse_dependencies(results)
Annotate ==
    /\ pc = "annotate"
    /\ rev_deps' = IF annotate
                   THEN Some(ReverseDependencies(engine.cache, results))
                   ELSE rev_deps
    /\ pc' = "render"
    /\ UNCHANGED <<options, world, index_urls, constraints, results,
                   formatted_results, out, errors, warnings, exit_status>>

Render ==
    /\ pc = "render"
    /\ out' = out \o [i \in 1..Len(formatted_results) |->
                        FormatRequirement(formatted_results[i],
                                          AnnotationFor(formatted_results[i]))]
    /\ pc' = "dry_run"
    /\ UNCHANGED <<options, world, index_urls, constraints, results,
                   formatted_results, rev_deps, errors, warnings, exit_status>>

DryRun ==
    /\ pc = "dry_run"
    /\ warnings' = IF dry_run
                   THEN Append(warnings, "Dry-run, so nothing updated.")
                   ELSE warnings
    /\ pc' = "done"
    /\ UNCHANGED <<options, world, index_urls, constraints, results,
                   formatted_results, rev_deps, out, errors, exit_status>>

Next ==
    \/ Setup
    \/ Parse
    \/ ParseFail
    \/ Resolve
    \/ ResolveFail
    \/ FormatResults
    \/ Header
    \/ IndexDirectives
    \/ Annotate
    \/ Render
    \/ DryRun

Spec == Init /\ [][Next]_vars

SpecIndex == InitIndex /\ [][Next]_vars

(***************************************************************************)
(* Reading the output document back.                                       *)
(***************************************************************************)
IsIndex(l) == l.kind = "index"
IsReq(l) == l.kind = "req"
IsHeader(l) == l.kind = "header"

IndexOut == SelectSeq(out, IsIndex)
ReqOut == SelectSeq(out, IsReq)

AfterIndexStage == pc \in {"annotate", "render", "dry_run", "done"}

StartsWith(s, p) == Len(s) >= Len(p) /\ SubSeq(s, 1, Len(p)) = p

\* Position of the first ", " in s, 0 when there is none.
CommaAt(s) ==
    LET hits == {i \in 1..Len(s) - 1 : s[i] = 44 /\ s[i + 1] = 32}
    IN  IF hits = {} THEN 0 ELSE CHOOSE i \in hits : \A j \in hits : i <= j

RECURSIVE Split(_)
Split(s) ==
    IF s = <<>> THEN <<>>
    ELSE LET k == CommaAt(s)
         IN  IF k = 0 THEN <<s>>
             ELSE <<SubSeq(s, 1, k - 1)>> \o Split(SubSeq(s, k + 2, Len(s)))

\* The names listed after "# via " on a requirement line.
AnnotationNames(l) ==
    IF StartsWith(l.suffix, Hash \o Via)
    THEN Split(SubSeq(l.suffix, Len(Hash \o Via) + 1, Len(l.suffix)))
    ELSE <<>>

Range(s) == {s[i] : i \in 1..Len(s)}

ResultNamed(n) == results[CHOOSE i \in 1..Len(results) : results[i].name = n]

ResultPos(n) == CHOOSE i \in 1..Len(results) : results[i].name = n

CollectedPos(n) == CHOOSE i \in 1..Len(constraints) : constraints[i] = n

\* The packages of the result set whose cache entry declares n.
DeclaringPackages(n) == {p \in NamesOf(results) : n \in engine.cache[p]}

\* The index URLs that differ from the default one, each once, in the
\* order in which index_urls first has them.
RECURSIVE FirstSeen(_, _)
FirstSeen(urls, seen) ==
    IF urls = <<>> THEN <<>>
    ELSE IF urls[1] \in seen THEN FirstSeen(Tail(urls), seen)
    ELSE <<urls[1]>> \o FirstSeen(Tail(urls), seen \cup {urls[1]})

(***************************************************************************)
(* The claims.                                                             *)
(***************************************************************************)
\* C1: each distinct URL appears at most once among the emitted index
\* directives, and the emitted URLs are in the order in which index_urls
\* first has them.
C1_IndexDedup ==
    LET urls == [i \in 1..Len(IndexOut) |-> IndexOut[i].url]
        first == FirstSeen(index_urls, {})
        at(u) == CHOOSE i \in 1..Len(first) : first[i] = u
    IN  /\ Injective(urls)
        /\ Range(urls) \subseteq Range(index_urls)
        /\ \A i, j \in 1..Len(urls) : i < j => at(urls[i]) < at(urls[j])

\* C2: no emitted index directive carries the default index URL, and the
\* primary directive is emitted exactly when the first URL of index_urls
\* differs from the default.
C2_DefaultNeverEmitted ==
    /\ \A i \in 1..Len(IndexOut) : IndexOut[i].url # DEFAULT_INDEX_URL
    /\ AfterIndexStage =>
        ((\E i \in 1..Len(IndexOut) : IndexOut[i].directive = "--index-url")
            <=> index_urls[1] # DEFAULT_INDEX_URL)

\* C3: the first emitted directive is labelled --index-url and every later
\* one --extra-index-url, each with its own URL: the directives are the
\* non-default URLs of index_urls, each once, in first-seen order.
C3_DirectiveLabelling ==
    AfterIndexStage =>
        LET expected == FirstSeen(index_urls, {DEFAULT_INDEX_URL})
        IN  IndexOut = [i \in 1..Len(expected) |->
                          [kind |-> "index",
                           directive |-> IF i = 1 THEN "--index-url"
                                         ELSE "--extra-index-url",
                           url |-> expected[i]]]

\* C4: on the requirement lines every editable entry precedes every
\* non-editable one, and within each group the lower-cased requirement
\* texts are non-decreasing.
C4_SortCorrectness ==
    \A i, j \in 1..Len(ReqOut) :
        i < j =>
            LET a == ResultNamed(ReqOut[i].name)
                b == ResultNamed(ReqOut[j].name)
            IN  /\ b.editable => a.editable
                /\ a.editable = b.editable =>
                     ~StrLess(Lower(ReqOut[j].text), Lower(ReqOut[i].text))

C4_Witness ==
    /\ pc = "done"
    /\ Len(ReqOut) = 3
    /\ results # formatted_results
    /\ \E i, j \in 1..3 :
        /\ ReqOut[i].name = <<97>> /\ ReqOut[j].name = <<66>>
        /\ ResultNamed(<<97>>).editable = ResultNamed(<<66>>).editable
    /\ \E i, j \in 1..3 :
        ResultNamed(ReqOut[i].name).editable
            /\ ~ResultNamed(ReqOut[j].name).editable

\* C5 as stated: the names of an annotation are the parents of the
\* package in the reverse-dependency map, in case-insensitive order.
C5_AnnotationCaseInsensitive ==
    annotate =>
        \A k \in 1..Len(ReqOut) :
            LET names == AnnotationNames(ReqOut[k])
            IN  /\ Range(names) = Lookup(rev_deps.val, ReqOut[k])
                /\ \A i, j \in 1..Len(names) :
                     i < j => ~StrLess(Lower(names[j]), Lower(names[i]))

\* C5 amended: the annotation of a package is the comma-joined list of its
\* parents in the reverse-dependency map, each once, in ascending
\* code-point order (upper case before lower case); it is empty when the
\* package has no parents.
C5_AnnotationCodePointOrder ==
    annotate =>
        \A k \in 1..Len(ReqOut) :
            LET names == AnnotationNames(ReqOut[k])
            IN  /\ Range(names) = Lookup(rev_deps.val, ReqOut[k])
                /\ \A i, j \in 1..Len(names) :
                     i < j => StrLess(names[i], names[j])
                /\ Lookup(rev_deps.val, ReqOut[k]) = {} => ReqOut[k].suffix = <<>>

C5_Witness ==
    /\ pc = "done"
    /\ annotate
    /\ \E k \in 1..Len(ReqOut) :
        AnnotationNames(ReqOut[k]) = << <<66>>, <<97>> >>
    /\ \E k \in 1..Len(ReqOut) : ReqOut[k].suffix = <<>>

\* C6: when parsing or resolution fails, nothing of the output document is
\* written and no later stage runs; a resolution error is reported once
\* and the run ends with exit status 2.
C6_AllOrNothing ==
    /\ (~src.ok \/ ~engine.ok) =>
        /\ out = <<>>
        /\ formatted_results = <<>>
        /\ rev_deps = None
        /\ pc \in {"setup", "parse", "resolve", "raised", "exit"}
    /\ pc = "raised" => ~src.ok /\ results = <<>> /\ errors = <<>>
    /\ errors # <<>> =>
        /\ pc = "exit"
        /\ Len(errors) = 1
        /\ exit_status = Some(2)
    /\ pc = "exit" <=> errors # <<>>

C6_Witness ==
    /\ pc = "exit"
    /\ ~no_header
    /\ Len(errors) = 1
    /\ exit_status = Some(2)
    /\ out = <<>>

\* C7: the output is the header block (present iff the header is not
\* disabled, every line of it starting with '#'), then the index
\* directives, then the requirement lines.
C7_LayoutOrder ==
    LET rank(l) == IF IsHeader(l) THEN 1 ELSE IF IsIndex(l) THEN 2 ELSE 3
    IN  /\ \A i, j \in 1..Len(out) : i < j => rank(out[i]) <= rank(out[j])
        /\ \A i \in 1..Len(out) : IsHeader(out[i]) => out[i].text[1] = "#"
        /\ pc \in {"index", "annotate", "render", "dry_run", "done"} =>
             ((\E i \in 1..Len(out) : IsHeader(out[i])) <=> ~no_header)

C7_Witness ==
    /\ pc = "done"
    /\ ~no_header
    /\ IsHeader(out[1])
    /\ IndexOut # <<>>
    /\ ReqOut # <<>>

\* C8: a requirement line has a "# via ..." suffix iff annotations are
\* enabled and some resolved package declares the line's package; without
\* annotations the reverse-dependency map is never computed.
C8_AnnotationGating ==
    /\ ~annotate => rev_deps = None
    /\ \A k \in 1..Len(ReqOut) :
        /\ ReqOut[k].suffix # <<>> <=>
             (annotate /\ DeclaringPackages(ReqOut[k].name) # {})
        /\ ReqOut[k].suffix # <<>> =>
             /\ StartsWith(ReqOut[k].suffix, Hash \o Via)
             /\ Len(ReqOut[k].suffix) > Len(Hash \o Via)

C8_Witness ==
    /\ pc = "done"
    /\ annotate
    /\ \E k \in 1..Len(ReqOut) : ReqOut[k].suffix # <<>>
    /\ \E k \in 1..Len(ReqOut) : ReqOut[k].suffix = <<>>

\* C9: every name in the annotation of a line is a package of the result
\* set whose cache entry declares the line's package, and the line's
\* package is itself in the result set; when the run is done every such
\* name has a line of its own.
C9_AnnotationSoundness ==
    \A k \in 1..Len(ReqOut) :
        /\ ReqOut[k].name \in NamesOf(results)
        /\ \A q \in Range(AnnotationNames(ReqOut[k])) :
            /\ q \in NamesOf(results)
            /\ ReqOut[k].name \in engine.cache[q]
            /\ \E m \in 1..Len(ReqOut) : ReqOut[m].name = q

C9_Witness ==
    /\ pc = "done"
    /\ \E k \in 1..Len(ReqOut) : AnnotationNames(ReqOut[k]) # <<>>
    /\ \E n \in Names \ NamesOf(results) :
        engine.cache[n] \cap NamesOf(results) # {}

====
